---- MODULE Spec2Model ----
(***************************************************************************)
(* OnTheSpot download pipeline: the stealth (admission) counters of        *)
(* stealth.py, the resolve workers of qt/mainui.py (QueueWorker), the      *)
(* active download queue and its per-item and bulk operations              *)
(* (qt/mainui.py, qt/dl_progressbtn.py).                                   *)
(***************************************************************************)
EXTENDS Integers, Sequences, FiniteSets, TLC

VARIABLES
    now,                  \* wall clock: [day, hour] (date.today(), datetime.now().hour)
    file,                 \* content of STATS_FILE, or NoFile
    stealth_mode_enabled, \* config 'stealth_mode_enabled'
    op,                   \* name of the operation performed by the last step
    ret,                  \* what that operation returned
    pre,                  \* content of STATS_FILE before the last step
    calls,                \* number of increment_download_count calls completed
    base,                 \* the stats a query returned when the run started
    wpc,                  \* per download worker: position inside increment_download_count
    wstats,               \* per download worker: its local `stats` dictionary
    parsing,              \* runtimedata.parsing: item ids, in insertion order
    submitted,            \* number of download_btn_clicked calls so far
    next_local,           \* next local id the parser hands out
    pending,              \* runtimedata.pending: [key, item] in insertion order
    qpc,                  \* per resolve worker: position inside QueueWorker.run
    qlid,                 \* per resolve worker: its local variable local_id
    qitem,                \* per resolve worker: its local variable item, or Unbound
    selects,              \* number of loop iterations the resolve workers started
    signals,              \* add_item_to_download_list signals emitted, not yet delivered
    download_queue,       \* runtimedata.download_queue: entries in insertion order
    rows,                 \* tbl_dl_progress: one row of widgets per publication
    next_rid,             \* identity of the next row's widgets
    dhold,                \* per download worker: the entry it is working on
    disk,                 \* local ids whose output file exists
    published,            \* per local id: times add_item_to_download_list ran for it
    cancel_mark,          \* local ids below it were handed out before the last cancel_all_downloads
    gui,                  \* the GUI thread: "ready", inside a handler, or "hung" inside a bulk loop
    req,                  \* the _request_with_retry call in progress, or NoRet
    lic,                  \* the last apple_music_get_decryption_key call, or NoRet
    lock_owner            \* per lock of runtimedata: the thread holding it, or "free"

stealthState == <<now, file, stealth_mode_enabled, ret, pre, calls, base, wpc, wstats>>

queueState ==
    <<parsing, submitted, next_local, pending, qpc, qlid, qitem, selects, signals,
      download_queue, rows, next_rid, dhold, disk, published, cancel_mark, gui>>

extState == <<req, lic, lock_owner>>

vars == <<stealthState, queueState, extState, op>>

-----------------------------------------------------------------------------
(* Bounds of the model *)

MaxDay == 1
MaxHour == 1
MaxCalls == 2
MaxSubmit == 2
MaxSelect == 4
MaxEmit == 2
MaxLockSubmit == 1
MaxLockSelect == 2
MaxTries == 4

(* Configuration defaults read by stealth.py *)

max_per_hour == 20
max_per_day == 100
break_threshold == 15
break_minutes == 5

DownloadWorkers == {"d1", "d2"}
QueueWorkers == {"q1", "q2"}
ItemIds == {"a", "b"}

NoFile == [absent |-> TRUE]
Corrupt == [corrupt |-> TRUE]
NoRet == [none |-> TRUE]
Unbound == [unbound |-> TRUE]

-----------------------------------------------------------------------------
(* stealth.py *)

\* _reset_stats(): a zeroed record for today and the current hour
ResetStats(n) ==
    [date |-> n.day, tracks_today |-> 0, tracks_this_hour |-> 0,
     hour |-> n.hour, session_tracks |-> 0, last_download_time |-> 0]

\* faulty variant: the date is refreshed but yesterday's counters are kept
LoadStatsMutKeepCounters(f, n) ==
    IF f = NoFile THEN ResetStats(n)
    ELSE IF f.date # n.day THEN [f EXCEPT !.date = n.day]
    ELSE f

\* faulty variant: a file that cannot be read counts as both caps reached
OnLoadErrorMutCapped(n) ==
    [ResetStats(n) EXCEPT !.tracks_today = max_per_day, !.tracks_this_hour = max_per_hour]

\* _load_stats(): read_text or json.loads raised, the except clause logs
\* and the function returns _reset_stats()
OnLoadError(n) == ResetStats(n)

\* _load_stats(): the file's record, or a reset record when the file is
\* missing, unreadable or dated another day
LoadStats(f, n) ==
    IF f = Corrupt THEN OnLoadError(n)
    ELSE IF f = NoFile THEN ResetStats(n)
    ELSE IF f.date # n.day THEN ResetStats(n)
    ELSE f

\* faulty variant: the hourly counter survives the hour change
GetStealthStatsMutNoReset(f, n) ==
    LET stats == LoadStats(f, n) IN
    IF stats.hour # n.hour THEN [stats EXCEPT !.hour = n.hour] ELSE stats

\* faulty variant: the hourly counter is cleared by every query
GetStealthStatsMutAlwaysReset(f, n) ==
    [LoadStats(f, n) EXCEPT !.hour = n.hour, !.tracks_this_hour = 0]

\* get_stealth_stats(): the record it returns
GetStealthStats(f, n) ==
    LET stats == LoadStats(f, n) IN
    IF stats.hour # n.hour
    THEN [stats EXCEPT !.hour = n.hour, !.tracks_this_hour = 0]
    ELSE stats

\* get_stealth_stats(): the file it leaves (_save_stats only on hour change)
FileAfterGet(f, n) ==
    IF LoadStats(f, n).hour # n.hour THEN GetStealthStats(f, n) ELSE f

\* time.time(), as a count of hours since day 0 hour 0 (plus one, 0 = never)
TimeStamp(n) == n.day * (MaxHour + 1) + n.hour + 1

\* faulty variant: the caps are compared with > instead of >=
CanDownloadMutOffByOne(enabled, stats) ==
    IF ~enabled THEN TRUE
    ELSE IF stats.tracks_this_hour > max_per_hour THEN FALSE
    ELSE IF stats.tracks_today > max_per_day THEN FALSE
    ELSE TRUE

\* can_download(): the boolean it returns
CanDownloadResult(enabled, stats) ==
    IF ~enabled THEN TRUE
    ELSE IF stats.tracks_this_hour >= max_per_hour THEN FALSE
    ELSE IF stats.tracks_today >= max_per_day THEN FALSE
    ELSE TRUE

\* faulty variant: the daily counter is not advanced
IncrementedMutSkipToday(stats, n) ==
    [stats EXCEPT !.tracks_this_hour = @ + 1,
                  !.session_tracks = @ + 1,
                  !.last_download_time = TimeStamp(n)]

\* increment_download_count(): the record it builds from the loaded stats
Incremented(stats, n) ==
    [stats EXCEPT !.tracks_today = @ + 1,
                  !.tracks_this_hour = @ + 1,
                  !.session_tracks = @ + 1,
                  !.last_download_time = TimeStamp(n)]

\* break_minutes * 60 * random.uniform(0.8, 1.2)
BreakSeconds ==
    {(break_minutes * 60 * 8) \div 10, break_minutes * 60, (break_minutes * 60 * 12) \div 10}

\* config.get('download_delay', 3), in seconds
download_delay == 3

\* config.get('stealth_min_delay', 30), in seconds
stealth_min_delay == 30

\* config.get('stealth_song_delay_ratio', 0.5), in thousandths
stealth_song_delay_ratio == 500

\* config.get('stealth_random_variation', 0.3), in thousandths
stealth_random_variation == 300

\* the duration assumed for a track without one (`song_duration_ms or 180000`)
default_duration_ms == 180000

\* the configurations the delay is computed under: the defaults and one
\* other value of each key
DelayConfigs ==
    [download_delay : {download_delay, 5},
     min_delay : {stealth_min_delay, 120},
     song_ratio : {stealth_song_delay_ratio},
     random_var : {stealth_random_variation, 1000}]

\* (song_duration_ms or 180000), in milliseconds; None and 0 are both falsy
SongDurationMs(song_duration_ms) ==
    IF song_duration_ms = 0 THEN default_duration_ms ELSE song_duration_ms

\* base_delay = song_duration_sec * song_ratio, in milliseconds
BaseDelay(song_duration_ms, cfg) == (SongDurationMs(song_duration_ms) * cfg.song_ratio) \div 1000

\* variation = base_delay * random_var, in milliseconds
Variation(song_duration_ms, cfg) == (BaseDelay(song_duration_ms, cfg) * cfg.random_var) \div 1000

\* random.uniform(-variation, variation): the two ends, the middle and the
\* two quarter points
Jitter(variation) ==
    {-variation, -(variation \div 2), 0, variation \div 2, variation}

\* random.uniform(30, 120), in milliseconds
Extras == {30000, 75000, 120000}

Max(a, b) == IF a >= b THEN a ELSE b

\* faulty variant: the minimum delay is not enforced
FlooredMutNoFloor(delay, min_delay) == delay

\* delay = max(delay, min_delay), in milliseconds (min_delay is in seconds)
Floored(delay, min_delay) == Max(delay, min_delay * 1000)

\* faulty variant: stealth pacing is applied to every service
PacedMutAnyService(enabled, service) == enabled

\* line 114: stealth pacing applies when the mode is on and the service is
\* apple_music
Paced(enabled, service) == enabled /\ service = "apple_music"

\* faulty variant: the function returns 0 when it does not pace
UnpacedDelayMutZero(cfg) == 0

\* line 115: the delay returned when stealth pacing does not apply, in
\* milliseconds
UnpacedDelay(cfg) == cfg.download_delay * 1000

\* calculate_stealth_delay(song_duration_ms, service), in milliseconds, for
\* the jitter u and the distraction time extra that the random draws gave
\* (extra = 0: random.random() >= 0.1)
CalculateStealthDelay(enabled, service, song_duration_ms, cfg, u, extra) ==
    IF ~Paced(enabled, service)
    THEN UnpacedDelay(cfg)
    ELSE Floored(BaseDelay(song_duration_ms, cfg) + u, cfg.min_delay) + extra

\* faulty variant: the threshold is compared with > instead of >=
NeedsBreakMutStrict(enabled, stats) == enabled /\ stats.session_tracks > break_threshold

\* check_session_break(): whether a break is due
NeedsBreak(enabled, stats) == enabled /\ stats.session_tracks >= break_threshold

-----------------------------------------------------------------------------
(* Python dictionaries kept in insertion order, as sequences of entries     *)
(* that carry their key                                                     *)

Keys(d) == {d[i].key : i \in DOMAIN d}

\* d[k]
At(d, k) == d[CHOOSE i \in DOMAIN d : d[i].key = k]

\* d[k] = e: in place when k is present, at the end otherwise
DictSet(d, k, e) ==
    IF k \in Keys(d)
    THEN [i \in DOMAIN d |-> IF d[i].key = k THEN e ELSE d[i]]
    ELSE Append(d, e)

\* d.pop(k)
DictPop(d, k) == SelectSeq(d, LAMBDA e : e.key # k)

\* the sequence without its i-th element (QTableWidget.removeRow)
RemoveAt(s, i) == [j \in 1..(Len(s) - 1) |-> IF j < i THEN s[j] ELSE s[j + 1]]

LocalIds == 1..MaxSubmit

Locks == {"parsing_lock", "pending_lock", "download_queue_lock"}

InitExt ==
    /\ req = NoRet
    /\ lic = NoRet
    /\ lock_owner = [l \in Locks |-> "free"]

InitQueue ==
    /\ InitExt
    /\ parsing = <<>>
    /\ submitted = 0
    /\ next_local = 1
    /\ pending = <<>>
    /\ qpc = [w \in QueueWorkers |-> "idle"]
    /\ qlid = [w \in QueueWorkers |-> 0]
    /\ qitem = [w \in QueueWorkers |-> Unbound]
    /\ selects = 0
    /\ signals = <<>>
    /\ download_queue = <<>>
    /\ rows = <<>>
    /\ next_rid = 1
    /\ dhold = [d \in DownloadWorkers |-> NoRet]
    /\ disk = {}
    /\ published = [l \in LocalIds |-> 0]
    /\ cancel_mark = 0
    /\ gui = "ready"

-----------------------------------------------------------------------------
(* Persisted records a process may find at start-up *)

InitCounts ==
    {c \in [today : {0, 19, 99}, hour : {0, 19}, session : {0, 14}] :
        c.hour <= c.today /\ c.session <= c.today}

InitFiles ==
    {NoFile} \cup
    {[date |-> 0, tracks_today |-> c.today, tracks_this_hour |-> c.hour, hour |-> 0,
      session_tracks |-> c.session,
      last_download_time |-> IF c.today = 0 THEN 0 ELSE 1] : c \in InitCounts}

IdleWorkers == [w \in DownloadWorkers |-> "idle"]
NoLocals == [w \in DownloadWorkers |-> NoRet]

InitStealth ==
    /\ now = [day |-> 0, hour |-> 0]
    /\ file \in InitFiles
    /\ stealth_mode_enabled \in BOOLEAN
    /\ op = "start"
    /\ ret = NoRet
    /\ pre = file
    /\ calls = 0
    /\ base = GetStealthStats(file, now)
    /\ wpc = IdleWorkers
    /\ wstats = NoLocals
    /\ InitQueue

-----------------------------------------------------------------------------
(* Sequential operations of stealth.py: each call runs to completion *)

\* get_stealth_stats()
GetStats ==
    /\ op' = "get_stealth_stats"
    /\ pre' = file
    /\ ret' = [stats |-> GetStealthStats(file, now)]
    /\ file' = FileAfterGet(file, now)
    /\ UNCHANGED <<extState, queueState, now, stealth_mode_enabled, calls, base, wpc, wstats>>

\* can_download(): with stealth disabled the stats are not even read
CanDownload ==
    /\ op' = "can_download"
    /\ pre' = file
    /\ IF ~stealth_mode_enabled
       THEN /\ ret' = [ok |-> CanDownloadResult(FALSE, ResetStats(now))]
            /\ file' = file
       ELSE /\ ret' = [ok |-> CanDownloadResult(TRUE, GetStealthStats(file, now))]
            /\ file' = FileAfterGet(file, now)
    /\ UNCHANGED <<extState, queueState, now, stealth_mode_enabled, calls, base, wpc, wstats>>

\* increment_download_count()
IncrementDownloadCount ==
    /\ calls < MaxCalls
    /\ op' = "increment_download_count"
    /\ pre' = file
    /\ file' = Incremented(GetStealthStats(file, now), now)
    /\ ret' = [stats |-> file']
    /\ calls' = calls + 1
    /\ UNCHANGED <<extState, queueState, now, stealth_mode_enabled, base, wpc, wstats>>

\* check_session_break()
CheckSessionBreak ==
    /\ op' = "check_session_break"
    /\ pre' = file
    /\ IF ~stealth_mode_enabled
       THEN /\ ret' = [needs_break |-> NeedsBreak(FALSE, ResetStats(now)), seconds |-> 0]
            /\ file' = file
       ELSE LET stats == GetStealthStats(file, now) IN
            IF NeedsBreak(stealth_mode_enabled, stats)
            THEN /\ file' = [stats EXCEPT !.session_tracks = 0]
                 /\ \E s \in BreakSeconds : ret' = [needs_break |-> TRUE, seconds |-> s]
            ELSE /\ file' = FileAfterGet(file, now)
                 /\ ret' = [needs_break |-> FALSE, seconds |-> 0]
    /\ UNCHANGED <<extState, queueState, now, stealth_mode_enabled, calls, base, wpc, wstats>>

\* the wall clock moves into the next hour of the same day
TickHour ==
    /\ now.hour < MaxHour
    /\ now' = [now EXCEPT !.hour = @ + 1]
    /\ op' = "tick"
    /\ pre' = file
    /\ ret' = NoRet
    /\ UNCHANGED <<extState, queueState, file, stealth_mode_enabled, calls, base, wpc, wstats>>

\* the calendar date changes; the process may next look at the clock at any hour
TickDay ==
    /\ now.day < MaxDay
    /\ \E h \in 0..MaxHour : now' = [day |-> now.day + 1, hour |-> h]
    /\ op' = "tick"
    /\ pre' = file
    /\ ret' = NoRet
    /\ UNCHANGED <<extState, queueState, file, stealth_mode_enabled, calls, base, wpc, wstats>>

\* the user switches stealth mode in the settings
SetStealthMode ==
    /\ stealth_mode_enabled' = ~stealth_mode_enabled
    /\ op' = "config"
    /\ pre' = file
    /\ ret' = NoRet
    /\ UNCHANGED <<extState, queueState, now, file, calls, base, wpc, wstats>>

\* the process exits and starts again: stealth.py keeps nothing in memory
Restart ==
    /\ op # "restart"
    /\ op' = "restart"
    /\ pre' = file
    /\ ret' = NoRet
    /\ wpc' = IdleWorkers
    /\ wstats' = NoLocals
    /\ UNCHANGED <<extState, queueState, now, file, stealth_mode_enabled, calls, base>>

\* the track lengths handed to calculate_stealth_delay, in milliseconds
\* (0: no duration known)
Durations == {0, 30000, 180000, 600000}

Services == {"apple_music", "spotify"}

\* calculate_stealth_delay(song_duration_ms, service): without pacing no
\* random number is drawn
CalculateStealthDelayCall ==
    /\ \E d \in Durations, s \in Services, cfg \in DelayConfigs :
        \E u \in IF Paced(stealth_mode_enabled, s) THEN Jitter(Variation(d, cfg)) ELSE {0} :
        \E extra \in IF Paced(stealth_mode_enabled, s) THEN {0} \cup Extras ELSE {0} :
            ret' = [delay |-> CalculateStealthDelay(stealth_mode_enabled, s, d, cfg, u, extra),
                    song_duration_ms |-> d, service |-> s, config |-> cfg,
                    jitter |-> u, extra |-> extra]
    /\ op' = "calculate_stealth_delay"
    /\ pre' = file
    /\ UNCHANGED <<extState, queueState, now, file, stealth_mode_enabled, calls, base, wpc, wstats>>

NextStealth ==
    \/ GetStats
    \/ CanDownload
    \/ IncrementDownloadCount
    \/ CheckSessionBreak
    \/ TickHour
    \/ TickDay
    \/ SetStealthMode
    \/ Restart

SpecStealth == InitStealth /\ [][NextStealth]_vars

\* the stats file is left unreadable or unparsable: a write_text cut short,
\* a damaged disk block, a file edited by hand
CorruptFile ==
    /\ file # Corrupt
    /\ file' = Corrupt
    /\ op' = "corrupt"
    /\ pre' = file
    /\ ret' = NoRet
    /\ UNCHANGED <<extState, queueState, now, stealth_mode_enabled, calls, base, wpc, wstats>>

NextCorrupt ==
    \/ GetStats
    \/ CanDownload
    \/ IncrementDownloadCount
    \/ CheckSessionBreak
    \/ TickHour
    \/ TickDay
    \/ CorruptFile

SpecCorrupt == InitStealth /\ [][NextCorrupt]_vars

\* the pacing delay on its own: calls under either setting of stealth mode
NextDelay ==
    \/ CalculateStealthDelayCall
    \/ SetStealthMode

SpecDelay == InitStealth /\ [][NextDelay]_vars

-----------------------------------------------------------------------------
(* increment_download_count() run by several download workers: the file is  *)
(* read (line 92) and written (line 97) with no lock in between             *)

Loading == {w \in DownloadWorkers : wpc[w] = "loaded"}

\* stats = get_stealth_stats()
IncBegin(w) ==
    /\ wpc[w] = "idle"
    /\ calls + Cardinality(Loading) < MaxCalls
    /\ wstats' = [wstats EXCEPT ![w] = GetStealthStats(file, now)]
    /\ file' = FileAfterGet(file, now)
    /\ wpc' = [wpc EXCEPT ![w] = "loaded"]
    /\ op' = "increment_begin"
    /\ pre' = file
    /\ ret' = NoRet
    /\ UNCHANGED <<extState, queueState, now, stealth_mode_enabled, calls, base>>

\* the three += 1, the timestamp and _save_stats(stats)
IncCommit(w) ==
    /\ wpc[w] = "loaded"
    /\ file' = Incremented(wstats[w], now)
    /\ ret' = [stats |-> file']
    /\ calls' = calls + 1
    /\ wpc' = [wpc EXCEPT ![w] = "idle"]
    /\ wstats' = [wstats EXCEPT ![w] = NoRet]
    /\ op' = "increment_download_count"
    /\ pre' = file
    /\ UNCHANGED <<extState, queueState, now, stealth_mode_enabled, base>>

NextStealthConc ==
    \/ \E w \in DownloadWorkers : IncBegin(w)
    \/ \E w \in DownloadWorkers : IncCommit(w)

SpecStealthConc == InitStealth /\ [][NextStealthConc]_vars

-----------------------------------------------------------------------------
(* Admission by several download workers: each download start is preceded   *)
(* by a can_download() that returned true and followed by one               *)
(* increment_download_count(); nothing orders one worker's calls with       *)
(* another's                                                                *)

InFlightCalls == {w \in DownloadWorkers : wpc[w] \in {"admitted", "loaded"}}

\* can_download() returned (True, ""): the worker starts its download
Admit(w) ==
    /\ wpc[w] = "idle"
    /\ calls + Cardinality(InFlightCalls) < MaxCalls
    /\ IF ~stealth_mode_enabled
       THEN /\ CanDownloadResult(FALSE, ResetStats(now))
            /\ file' = file
       ELSE /\ CanDownloadResult(TRUE, GetStealthStats(file, now))
            /\ file' = FileAfterGet(file, now)
    /\ wpc' = [wpc EXCEPT ![w] = "admitted"]
    /\ op' = "can_download"
    /\ pre' = file
    /\ ret' = [ok |-> TRUE]
    /\ UNCHANGED <<extState, queueState, now, stealth_mode_enabled, calls, base, wstats>>

\* increment_download_count(), line 92: stats = get_stealth_stats()
AdmittedIncBegin(w) ==
    /\ wpc[w] = "admitted"
    /\ wstats' = [wstats EXCEPT ![w] = GetStealthStats(file, now)]
    /\ file' = FileAfterGet(file, now)
    /\ wpc' = [wpc EXCEPT ![w] = "loaded"]
    /\ op' = "increment_begin"
    /\ pre' = file
    /\ ret' = NoRet
    /\ UNCHANGED <<extState, queueState, now, stealth_mode_enabled, calls, base>>

NextAdmit ==
    \/ \E w \in DownloadWorkers : Admit(w)
    \/ \E w \in DownloadWorkers : AdmittedIncBegin(w)
    \/ \E w \in DownloadWorkers : IncCommit(w)
    \/ TickHour

SpecAdmit == InitStealth /\ [][NextAdmit]_vars

-----------------------------------------------------------------------------
(* The download table and the active queue (qt/mainui.py)                   *)

InFlight == {"Downloading", "Converting"}

\* the statuses remove_completed_from_download_list clears
Removable == {"Cancelled", "Deleted", "Downloaded", "Already Exists"}

\* faulty variant: the progress bar is left as it was
SetProgressMutKeep(rs, rid, p) == rs

\* item['gui']['progress_bar'].setValue(p) on the row whose widgets have
\* identity rid
SetProgress(rs, rid, p) ==
    [i \in DOMAIN rs |-> IF rs[i].rid = rid THEN [rs[i] EXCEPT !.progress = p] ELSE rs[i]]

\* the row a fresh publication inserts: progress 0, cancel shown, retry and
\* delete hidden
NewRow(rid, local_id) ==
    [rid |-> rid, local_id |-> local_id, progress |-> 0,
     cancel |-> TRUE, retry |-> FALSE, delete |-> FALSE]

\* faulty variant: a publication enters the queue with a status of its own
NewEntryMutQueued(item, rid) ==
    [key |-> item.local_id, item_id |-> item.item_id, item_status |-> "Queued",
     file_path |-> FALSE, gui |-> rid]

\* the dictionary add_item_to_download_list stores under item['local_id']
NewEntry(item, rid) ==
    [key |-> item.local_id, item_id |-> item.item_id, item_status |-> "Waiting",
     file_path |-> FALSE, gui |-> rid]

\* update_item_in_download_list: the progress bar and the buttons, decided by
\* the item's status and the progress reported
UpdatedRow(r, item_status, progress) ==
    IF item_status = "Unavailable"
    THEN [r EXCEPT !.progress = progress, !.cancel = FALSE, !.retry = FALSE]
    ELSE IF progress = 0
    THEN [r EXCEPT !.progress = progress, !.cancel = FALSE, !.retry = TRUE]
    ELSE IF progress = 100
    THEN [r EXCEPT !.progress = progress, !.cancel = FALSE, !.retry = FALSE, !.delete = TRUE]
    ELSE [r EXCEPT !.progress = progress, !.retry = FALSE, !.cancel = TRUE]

\* the rows after a worker's progress signal; a hung GUI thread delivers none
Notified(rs, rid, item_status, progress) ==
    IF gui = "ready"
    THEN [i \in DOMAIN rs |->
            IF rs[i].rid = rid THEN UpdatedRow(rs[i], item_status, progress) ELSE rs[i]]
    ELSE rs

\* the queue with the status of entry k replaced
WithStatus(dq, k, st) == DictSet(dq, k, [At(dq, k) EXCEPT !.item_status = st])

\* remove_completed_from_download_list: the scan over the table rows
RECURSIVE RemoveScan(_, _, _)
RemoveScan(rs, dq, check_row) ==
    IF check_row > Len(rs) THEN [rows |-> rs, dq |-> dq]
    ELSE LET local_id == rs[check_row].local_id IN
         IF local_id \in Keys(dq) /\ At(dq, local_id).item_status \in Removable
         THEN RemoveScan(RemoveAt(rs, check_row), DictPop(dq, local_id), check_row)
         ELSE RemoveScan(rs, dq, check_row + 1)

\* faulty variant: the bulk loop changes every entry
BulkStatusMutAll(dq, from, to) == [i \in DOMAIN dq |-> [dq[i] EXCEPT !.item_status = to]]

\* the statuses after one pass of a bulk loop that turns `from` into `to`
BulkStatus(dq, from, to) ==
    [i \in DOMAIN dq |->
        IF dq[i].item_status \in from THEN [dq[i] EXCEPT !.item_status = to] ELSE dq[i]]

\* the widgets of the entries a bulk loop changed: the cancel and retry
\* buttons as given, the progress bar set to `progress`
BulkRows(rs, dq, from, cancel, retry, progress) ==
    [i \in DOMAIN rs |->
        IF \E j \in DOMAIN dq : dq[j].gui = rs[i].rid /\ dq[j].item_status \in from
        THEN [rs[i] EXCEPT !.cancel = cancel, !.retry = retry, !.progress = progress[@]]
        ELSE rs[i]]

\* progress_bar.setValue(0) of cancel_all_downloads
ResetProgress == [p \in 0..100 |-> 0]

\* the bulk retry leaves the progress bar alone
KeepProgress == [p \in 0..100 |-> p]

\* faulty variant: the bulk retry skips Cancelled items
RetryableMutFailedOnly == {"Failed"}

\* what retry_cancelled_and_failed_downloads retries
Retryable == {"Failed", "Cancelled"}

\* the status delete_file assigns
DeletedStatus == "Deleted"

-----------------------------------------------------------------------------
(* Submission and parsing *)

\* download_btn_clicked: parsing[item_id] = {...}
DownloadBtnClicked(x) ==
    /\ gui = "ready"
    /\ submitted < MaxSubmit
    /\ submitted' = submitted + 1
    /\ parsing' = IF \E i \in DOMAIN parsing : parsing[i] = x THEN parsing ELSE Append(parsing, x)
    /\ op' = "download_btn_clicked"
    /\ UNCHANGED <<extState, stealthState, cancel_mark, next_local, pending, qpc, qlid, qitem, selects, signals,
                   download_queue, rows, next_rid, dhold, disk, published, gui>>

\* parsingworker: the oldest parse request becomes a pending entry under a
\* fresh local id
ParseItem ==
    /\ parsing # <<>>
    /\ parsing' = Tail(parsing)
    /\ pending' = DictSet(pending, next_local,
                          [key |-> next_local,
                           item |-> [local_id |-> next_local, item_id |-> Head(parsing)]])
    /\ next_local' = next_local + 1
    /\ op' = "parse_item"
    /\ UNCHANGED <<extState, stealthState, cancel_mark, submitted, qpc, qlid, qitem, selects, signals,
                   download_queue, rows, next_rid, dhold, disk, published, gui>>

-----------------------------------------------------------------------------
(* QueueWorker.run, one step per access to the shared pending dictionary *)

\* `if pending:` and `local_id = next(iter(pending))`, outside the lock
QSelect(w) ==
    /\ qpc[w] = "idle"
    /\ pending # <<>>
    /\ selects < MaxSelect
    /\ selects' = selects + 1
    /\ qlid' = [qlid EXCEPT ![w] = Head(pending).key]
    /\ qpc' = [qpc EXCEPT ![w] = "selected"]
    /\ op' = "select"
    /\ UNCHANGED <<extState, stealthState, cancel_mark, parsing, submitted, next_local, pending, qitem, signals,
                   download_queue, rows, next_rid, dhold, disk, published, gui>>

\* `with pending_lock: item = pending.pop(local_id)`; KeyError when another
\* thread removed the key since it was selected
QPop(w) ==
    /\ qpc[w] = "selected"
    /\ IF qlid[w] \in Keys(pending)
       THEN /\ qitem' = [qitem EXCEPT ![w] = At(pending, qlid[w]).item]
            /\ pending' = DictPop(pending, qlid[w])
            /\ qpc' = [qpc EXCEPT ![w] = "resolving"]
       ELSE /\ qpc' = [qpc EXCEPT ![w] = "except"]
            /\ UNCHANGED <<qitem, pending>>
    /\ op' = "pop"
    /\ UNCHANGED <<extState, stealthState, cancel_mark, parsing, submitted, next_local, qlid, selects, signals,
                   download_queue, rows, next_rid, dhold, disk, published, gui>>

\* get_account_token and the metadata call: metadata (the signal is
\* emitted), an empty result (nothing happens), or an exception ("raised":
\* the except clause is entered from the metadata call, not from the pop)
QResolve(w) ==
    /\ qpc[w] = "resolving"
    /\ \/ /\ signals' = Append(signals, qitem[w])
          /\ qpc' = [qpc EXCEPT ![w] = "idle"]
          /\ op' = "resolved"
       \/ /\ qpc' = [qpc EXCEPT ![w] = "idle"]
          /\ op' = "resolved_empty"
          /\ UNCHANGED signals
       \/ /\ qpc' = [qpc EXCEPT ![w] = "raised"]
          /\ op' = "resolve_raised"
          /\ UNCHANGED signals
    /\ UNCHANGED <<extState, stealthState, cancel_mark, parsing, submitted, next_local, pending, qlid, qitem, selects,
                   download_queue, rows, next_rid, dhold, disk, published, gui>>

\* the except clause: the log line reads `item`, which is unbound when the
\* worker has not popped anything yet (the exception then leaves run());
\* otherwise `pending[local_id] = item` with whatever item holds
QExcept(w) ==
    /\ qpc[w] \in {"except", "raised"}
    /\ IF qitem[w] = Unbound
       THEN /\ qpc' = [qpc EXCEPT ![w] = "dead"]
            /\ UNCHANGED pending
       ELSE /\ pending' = DictSet(pending, qlid[w], [key |-> qlid[w], item |-> qitem[w]])
            /\ qpc' = [qpc EXCEPT ![w] = "idle"]
    /\ op' = "except"
    /\ UNCHANGED <<extState, stealthState, cancel_mark, parsing, submitted, next_local, qlid, qitem, selects, signals,
                   download_queue, rows, next_rid, dhold, disk, published, gui>>

-----------------------------------------------------------------------------
(* The GUI thread: one handler at a time *)

\* add_item_to_download_list(item, item_metadata), on delivery of the signal
AddItemToDownloadList ==
    /\ gui = "ready"
    /\ signals # <<>>
    /\ LET item == Head(signals) IN
       /\ rows' = Append(rows, NewRow(next_rid, item.local_id))
       /\ download_queue' = DictSet(download_queue, item.local_id, NewEntry(item, next_rid))
       /\ published' = [published EXCEPT ![item.local_id] = @ + 1]
    /\ signals' = Tail(signals)
    /\ next_rid' = next_rid + 1
    /\ op' = "add_item_to_download_list"
    /\ UNCHANGED <<extState, stealthState, cancel_mark, parsing, submitted, next_local, pending, qpc, qlid, qitem, selects,
                   dhold, disk, gui>>

\* DownloadActionsButtons.cancel_item, from the cancel button of row i
CancelItem(i) ==
    /\ gui = "ready"
    /\ i \in DOMAIN rows
    /\ rows[i].cancel
    /\ LET local_id == rows[i].local_id IN
       IF local_id \notin Keys(download_queue)
       THEN /\ op' = "cancel_item_keyerror"
            /\ UNCHANGED <<download_queue, rows>>
       ELSE /\ op' = "cancel_item"
            /\ download_queue' = WithStatus(download_queue, local_id, "Cancelled")
            /\ rows' = [SetProgress(rows, At(download_queue, local_id).gui, 0)
                          EXCEPT ![i].cancel = FALSE, ![i].retry = TRUE]
    /\ UNCHANGED <<extState, stealthState, cancel_mark, parsing, submitted, next_local, pending, qpc, qlid, qitem, selects,
                   signals, next_rid, dhold, disk, published, gui>>

\* DownloadActionsButtons.retry_item, from the retry button of row i
RetryItem(i) ==
    /\ gui = "ready"
    /\ i \in DOMAIN rows
    /\ rows[i].retry
    /\ LET local_id == rows[i].local_id IN
       IF local_id \notin Keys(download_queue)
       THEN /\ op' = "retry_item_keyerror"
            /\ UNCHANGED <<download_queue, rows>>
       ELSE /\ op' = "retry_item"
            /\ download_queue' = WithStatus(download_queue, local_id, "Waiting")
            /\ rows' = [SetProgress(rows, At(download_queue, local_id).gui, 0)
                          EXCEPT ![i].retry = FALSE, ![i].cancel = TRUE]
    /\ UNCHANGED <<extState, stealthState, cancel_mark, parsing, submitted, next_local, pending, qpc, qlid, qitem, selects,
                   signals, next_rid, dhold, disk, published, gui>>

\* DownloadActionsButtons.delete_file, from the delete button of row i:
\* os.path.abspath / os.remove raise when there is no path or no file
DeleteFile(i) ==
    /\ gui = "ready"
    /\ i \in DOMAIN rows
    /\ rows[i].delete
    /\ LET local_id == rows[i].local_id IN
       IF \/ local_id \notin Keys(download_queue)
          \/ ~At(download_queue, local_id).file_path
          \/ local_id \notin disk
       THEN /\ op' = "delete_file_raised"
            /\ UNCHANGED <<download_queue, rows, disk>>
       ELSE /\ op' = "delete_file"
            /\ disk' = disk \ {local_id}
            /\ download_queue' = WithStatus(download_queue, local_id, DeletedStatus)
            /\ rows' = [rows EXCEPT ![i].delete = FALSE, ![i].retry = TRUE]
    /\ UNCHANGED <<extState, stealthState, cancel_mark, parsing, submitted, next_local, pending, qpc, qlid, qitem, selects,
                   signals, next_rid, dhold, published, gui>>

\* remove_completed_from_download_list
RemoveCompletedFromDownloadList ==
    /\ gui = "ready"
    /\ LET r == RemoveScan(rows, download_queue, 1) IN
       /\ rows' = r.rows
       /\ download_queue' = r.dq
    /\ op' = "remove_completed_from_download_list"
    /\ UNCHANGED <<extState, stealthState, cancel_mark, parsing, submitted, next_local, pending, qpc, qlid, qitem, selects,
                   signals, next_rid, dhold, disk, published, gui>>

\* cancel_all_downloads: the while loop never ends when the table has rows
\* and the queue has no entries
CancelAllDownloads ==
    /\ gui = "ready"
    /\ parsing' = <<>>
    /\ pending' = <<>>
    /\ op' = "cancel_all_downloads"
    /\ cancel_mark' = next_local
    /\ IF rows # <<>> /\ download_queue = <<>>
       THEN /\ gui' = "hung"
            /\ UNCHANGED <<download_queue, rows>>
       ELSE IF rows = <<>>
       THEN UNCHANGED <<download_queue, rows, gui>>
       ELSE /\ download_queue' = BulkStatus(download_queue, {"Waiting"}, "Cancelled")
            /\ rows' = BulkRows(rows, download_queue, {"Waiting"}, FALSE, TRUE, ResetProgress)
            /\ UNCHANGED gui
    /\ UNCHANGED <<extState, stealthState, submitted, next_local, qpc, qlid, qitem, selects,
                   signals, next_rid, dhold, disk, published>>

\* retry_cancelled_and_failed_downloads: same loop; the progress bar keeps
\* its value
RetryCancelledAndFailedDownloads ==
    /\ gui = "ready"
    /\ op' = "retry_cancelled_and_failed_downloads"
    /\ IF rows # <<>> /\ download_queue = <<>>
       THEN /\ gui' = "hung"
            /\ UNCHANGED <<download_queue, rows>>
       ELSE IF rows = <<>>
       THEN UNCHANGED <<download_queue, rows, gui>>
       ELSE /\ download_queue' = BulkStatus(download_queue, Retryable, "Waiting")
            /\ rows' = BulkRows(rows, download_queue, Retryable, TRUE, FALSE, KeepProgress)
            /\ UNCHANGED gui
    /\ UNCHANGED <<extState, stealthState, cancel_mark, parsing, submitted, next_local, pending, qpc, qlid, qitem, selects,
                   signals, next_rid, dhold, disk, published>>

-----------------------------------------------------------------------------
(* Download workers and the retry worker (downloader.py), as section 4 of   *)
(* the specification describes them                                         *)

\* the entry a worker holds is still the dictionary it claimed, in a status
\* the worker itself gave it
Holding(d) ==
    /\ dhold[d] # NoRet
    /\ dhold[d].key \in Keys(download_queue)
    /\ At(download_queue, dhold[d].key).gui = dhold[d].rid
    /\ At(download_queue, dhold[d].key).item_status \in InFlight

\* claim_waiting: the oldest Waiting entry becomes Downloading
DWClaim(d) ==
    /\ dhold[d] = NoRet
    /\ \E i \in DOMAIN download_queue :
        /\ download_queue[i].item_status = "Waiting"
        /\ \A j \in 1..(i - 1) : download_queue[j].item_status # "Waiting"
        /\ dhold' = [dhold EXCEPT ![d] = [key |-> download_queue[i].key,
                                            rid |-> download_queue[i].gui]]
        /\ download_queue' = [download_queue EXCEPT ![i].item_status = "Downloading",
                                                    ![i].file_path = TRUE]
        /\ rows' = Notified(rows, download_queue[i].gui, "Downloading", 1)
    /\ op' = "claim_waiting"
    /\ UNCHANGED <<extState, stealthState, cancel_mark, parsing, submitted, next_local, pending, qpc, qlid, qitem, selects,
                   signals, next_rid, disk, published, gui>>

\* Downloading -> Converting, once the bytes are fetched
DWConvert(d) ==
    /\ Holding(d)
    /\ At(download_queue, dhold[d].key).item_status = "Downloading"
    /\ download_queue' = WithStatus(download_queue, dhold[d].key, "Converting")
    /\ rows' = Notified(rows, dhold[d].rid, "Converting", 99)
    /\ op' = "converting"
    /\ UNCHANGED <<extState, stealthState, cancel_mark, parsing, submitted, next_local, pending, qpc, qlid, qitem, selects,
                   signals, next_rid, dhold, disk, published, gui>>

\* the terminal transition of an item in flight
DWFinish(d) ==
    /\ Holding(d)
    /\ \E st \in IF At(download_queue, dhold[d].key).item_status = "Downloading"
                 THEN {"Failed", "Unavailable", "Already Exists"}
                 ELSE {"Failed", "Downloaded"} :
        /\ download_queue' = WithStatus(download_queue, dhold[d].key, st)
        /\ rows' = Notified(rows, dhold[d].rid, st,
                            IF st \in {"Downloaded", "Already Exists"} THEN 100 ELSE 0)
        /\ disk' = IF st \in {"Downloaded", "Already Exists"}
                   THEN disk \cup {dhold[d].key} ELSE disk
        /\ op' = "finish"
    /\ dhold' = [dhold EXCEPT ![d] = NoRet]
    /\ UNCHANGED <<extState, stealthState, cancel_mark, parsing, submitted, next_local, pending, qpc, qlid, qitem, selects,
                   signals, next_rid, published, gui>>

\* the worker finds its item cancelled, retried, removed or replaced and
\* drops it without a further write
DWAbort(d) ==
    /\ dhold[d] # NoRet
    /\ ~Holding(d)
    /\ dhold' = [dhold EXCEPT ![d] = NoRet]
    /\ op' = "abort"
    /\ UNCHANGED <<extState, stealthState, cancel_mark, parsing, submitted, next_local, pending, qpc, qlid, qitem, selects,
                   signals, download_queue, rows, next_rid, disk, published, gui>>

\* RetryWorker: requeue(item, AsWaiting) for a Failed item
RetryWorkerSweep ==
    /\ \E i \in DOMAIN download_queue :
        /\ download_queue[i].item_status = "Failed"
        /\ download_queue' = [download_queue EXCEPT ![i].item_status = "Waiting"]
        /\ rows' = Notified(rows, download_queue[i].gui, "Waiting", 0)
    /\ op' = "retry_worker"
    /\ UNCHANGED <<extState, stealthState, cancel_mark, parsing, submitted, next_local, pending, qpc, qlid, qitem, selects,
                   signals, next_rid, dhold, disk, published, gui>>

\* a worker's status check before a side-effecting step: it reads the status
\* of the dictionary it claimed and remembers what it saw. cancel_item and
\* retry_item write item_status without taking download_queue_lock, so the
\* check and the worker's next write are two steps
DWCheck(d) ==
    /\ Holding(d)
    /\ "seen" \notin DOMAIN dhold[d]
    /\ dhold' = [dhold EXCEPT ![d] = [key |-> dhold[d].key, rid |-> dhold[d].rid,
                                        seen |-> At(download_queue, dhold[d].key).item_status]]
    /\ op' = "check_status"
    /\ UNCHANGED <<extState, stealthState, cancel_mark, parsing, submitted, next_local, pending, qpc, qlid, qitem, selects,
                   signals, download_queue, rows, next_rid, disk, published, gui>>

\* the step that follows a passed check: the worker writes the next status
\* into the dictionary it claimed (the queue's entry, unless a later
\* publication replaced it) and notifies the dictionary's widgets
DWWrite(d) ==
    /\ dhold[d] # NoRet
    /\ "seen" \in DOMAIN dhold[d]
    /\ dhold[d].key \in Keys(download_queue)
    /\ \E st \in IF dhold[d].seen = "Downloading"
                 THEN {"Converting", "Failed", "Unavailable", "Already Exists"}
                 ELSE {"Failed", "Downloaded"} :
        /\ download_queue' = IF At(download_queue, dhold[d].key).gui = dhold[d].rid
                             THEN WithStatus(download_queue, dhold[d].key, st)
                             ELSE download_queue
        /\ rows' = Notified(rows, dhold[d].rid, st,
                            IF st \in {"Downloaded", "Already Exists"} THEN 100
                            ELSE IF st = "Converting" THEN 99 ELSE 0)
        /\ disk' = IF st \in {"Downloaded", "Already Exists"}
                   THEN disk \cup {dhold[d].key} ELSE disk
        /\ dhold' = [dhold EXCEPT ![d] = IF st = "Converting"
                                          THEN [key |-> dhold[d].key, rid |-> dhold[d].rid]
                                          ELSE NoRet]
    /\ op' = "write_status"
    /\ UNCHANGED <<extState, stealthState, cancel_mark, parsing, submitted, next_local, pending, qpc, qlid, qitem, selects,
                   signals, next_rid, published, gui>>

\* a resolve worker emits add_item_to_download_list (QueueWorker.run line
\* 59) for an entry the parser just numbered, or once more for an entry it
\* emitted before (the stale `item` of the except clause)
EmitItem(l, x) ==
    /\ selects < MaxEmit
    /\ l <= next_local
    /\ selects' = selects + 1
    /\ next_local' = IF l = next_local THEN next_local + 1 ELSE next_local
    /\ signals' = Append(signals, [local_id |-> l, item_id |-> x])
    /\ op' = "resolved"
    /\ UNCHANGED <<extState, stealthState, cancel_mark, parsing, submitted, pending, qpc, qlid, qitem,
                   download_queue, rows, next_rid, dhold, disk, published, gui>>

\* the positions a row of the table can have: one row per publication
RowIndex == 1..MaxEmit

\* the download workers running in the active-queue specification
ActiveWorkers == {"d1"}

\* the resolve pipeline: submission, parsing, the resolve workers, publication
\* and the bulk operations of the download page
NextResolve ==
    \/ \E x \in ItemIds : DownloadBtnClicked(x)
    \/ ParseItem
    \/ \E w \in QueueWorkers : QSelect(w)
    \/ \E w \in QueueWorkers : QPop(w)
    \/ \E w \in QueueWorkers : QResolve(w)
    \/ \E w \in QueueWorkers : QExcept(w)
    \/ AddItemToDownloadList
    \/ RemoveCompletedFromDownloadList
    \/ CancelAllDownloads
    \/ RetryCancelledAndFailedDownloads

\* the active queue: publication of whatever the resolve workers emit, the
\* per-item buttons, the bulk operations, the download and retry workers
Next ==
    \/ \E l \in LocalIds, x \in ItemIds : EmitItem(l, x)
    \/ AddItemToDownloadList
    \/ \E i \in RowIndex : CancelItem(i)
    \/ \E i \in RowIndex : RetryItem(i)
    \/ \E i \in RowIndex : DeleteFile(i)
    \/ RemoveCompletedFromDownloadList
    \/ CancelAllDownloads
    \/ RetryCancelledAndFailedDownloads
    \/ \E d \in ActiveWorkers : DWClaim(d)
    \/ \E d \in ActiveWorkers : DWConvert(d)
    \/ \E d \in ActiveWorkers : DWFinish(d)
    \/ \E d \in ActiveWorkers : DWAbort(d)
    \/ RetryWorkerSweep

Init ==
    /\ now = [day |-> 0, hour |-> 0]
    /\ file = NoFile
    /\ stealth_mode_enabled = TRUE
    /\ op = "start"
    /\ ret = NoRet
    /\ pre = file
    /\ calls = 0
    /\ base = GetStealthStats(file, now)
    /\ wpc = IdleWorkers
    /\ wstats = NoLocals
    /\ InitQueue

Spec == Init /\ [][Next]_vars

SpecResolve == Init /\ [][NextResolve]_vars

\* the metadata call of a resolver that never returns an empty result
QResolveNonEmpty(w) == QResolve(w) /\ op' # "resolved_empty"

\* the resolve pipeline left to itself: no bulk operation, no empty result
NextProgress ==
    \/ \E x \in ItemIds : DownloadBtnClicked(x)
    \/ ParseItem
    \/ \E w \in QueueWorkers : QSelect(w)
    \/ \E w \in QueueWorkers : QPop(w)
    \/ \E w \in QueueWorkers : QResolveNonEmpty(w)
    \/ \E w \in QueueWorkers : QExcept(w)
    \/ AddItemToDownloadList

\* the parser, the resolve workers (threads started at mainui.py 120-132)
\* and the GUI event loop each take their next step when they have one
FairProgress ==
    /\ WF_vars(ParseItem)
    /\ WF_vars(AddItemToDownloadList)
    /\ \A w \in QueueWorkers :
          /\ WF_vars(QSelect(w))
          /\ WF_vars(QPop(w))
          /\ WF_vars(QResolveNonEmpty(w))
          /\ WF_vars(QExcept(w))

SpecProgress == Init /\ [][NextProgress]_vars /\ FairProgress

\* several download workers next to the per-item cancel and retry buttons,
\* with each worker's status check and status write as separate steps
NextWorkers ==
    \/ \E l \in LocalIds, x \in ItemIds : EmitItem(l, x)
    \/ AddItemToDownloadList
    \/ \E i \in RowIndex : CancelItem(i)
    \/ \E i \in RowIndex : RetryItem(i)
    \/ \E d \in DownloadWorkers : DWClaim(d)
    \/ \E d \in DownloadWorkers : DWCheck(d)
    \/ \E d \in DownloadWorkers : DWWrite(d)
    \/ \E d \in DownloadWorkers : DWAbort(d)

SpecWorkers == Init /\ [][NextWorkers]_vars

-----------------------------------------------------------------------------
(* api/apple_music.py: _request_with_retry, one step per attempt *)

\* MAX_RETRIES, the default of max_retries
MAX_RETRIES == 3

\* RETRY_DELAY, in seconds
RETRY_DELAY == 2

\* what one attempt can end with: a response that passes raise_for_status,
\* requests.exceptions.Timeout, ConnectionError, HTTPError for a 5xx or a
\* 4xx response, or any other exception
Outcomes == {"ok", "timeout", "connection_error", "http_5xx", "http_4xx", "other_error"}

\* faulty variant: client errors are retried like server errors
RetriedMutClientErrors == {"timeout", "connection_error", "http_5xx", "http_4xx"}

\* lines 79-90: the failures the except clauses keep as last_exception
\* instead of letting them leave the function
Retried == {"timeout", "connection_error", "http_5xx"}

\* faulty variant: one attempt more than max_retries
LoopOverMutOneMore(attempt, max_retries) == attempt > max_retries

\* line 68: `for attempt in range(max_retries)` has no further iteration
LoopOver(attempt, max_retries) == attempt >= max_retries

\* line 93: the sleep after the failure of the attempt with index `attempt`
BackoffDelay(attempt) == RETRY_DELAY * (attempt + 1)

\* line 95: the loop is over: raise last_exception or Exception(...)
Settled(r) ==
    IF r.status = "running" /\ LoopOver(r.attempt, r.max_retries)
    THEN [r EXCEPT !.status = "raised",
                   !.error = IF r.last = "none" THEN "request_failed" ELSE r.last]
    ELSE r

\* _request_with_retry(session, method, url, max_retries) is called
RequestStart(method, max_retries) ==
    /\ IF req = NoRet THEN TRUE ELSE req.status # "running"
    /\ req' = IF method \in {"GET", "POST"}
              THEN Settled([method |-> method, max_retries |-> max_retries, attempt |-> 0,
                            outcomes |-> <<>>, waits |-> <<>>, last |-> "none",
                            status |-> "running", error |-> "none"])
              ELSE IF max_retries > 0
              THEN [method |-> method, max_retries |-> max_retries, attempt |-> 0,
                    outcomes |-> <<>>, waits |-> <<>>, last |-> "none",
                    status |-> "raised", error |-> "value_error"]
              ELSE Settled([method |-> method, max_retries |-> max_retries, attempt |-> 0,
                            outcomes |-> <<>>, waits |-> <<>>, last |-> "none",
                            status |-> "running", error |-> "none"])
    /\ op' = "request_start"
    /\ UNCHANGED <<stealthState, queueState, lic, lock_owner>>

\* one iteration of the loop: the request, what it ends with, and the sleep
\* that follows a failure that is not the last
RequestAttempt(outcome) ==
    /\ req # NoRet
    /\ req.status = "running"
    /\ LET made == [req EXCEPT !.outcomes = Append(@, outcome)] IN
       req' = IF outcome = "ok"
              THEN [made EXCEPT !.status = "returned"]
              ELSE IF outcome \notin Retried
              THEN [made EXCEPT !.status = "raised", !.error = outcome]
              ELSE Settled([made EXCEPT
                              !.last = outcome,
                              !.waits = IF req.attempt < req.max_retries - 1
                                        THEN Append(@, BackoffDelay(req.attempt)) ELSE @,
                              !.attempt = @ + 1])
    /\ op' = "request_attempt"
    /\ UNCHANGED <<stealthState, queueState, lic, lock_owner>>

Methods == {"GET", "POST", "PUT"}

NextRetry ==
    \/ \E method \in Methods, m \in 0..MaxTries : RequestStart(method, m)
    \/ \E outcome \in Outcomes : RequestAttempt(outcome)

SpecRetry == Init /\ [][NextRetry]_vars

-----------------------------------------------------------------------------
(* api/apple_music.py: apple_music_get_decryption_key *)

\* what m3u8.load(stream_url) gives: an exception, a playlist without keys,
\* a first key that is None, a first key with an empty uri, a uri without a
\* comma (or with a part that is not base64), or a uri of the form
\* "prefix,base64"
Manifests == {"load_fails", "no_keys", "key_none", "empty_uri", "bad_pssh", "good"}

\* the Widevine client: Cdm.open and get_license_challenge succeed, or open
\* raises, or get_license_challenge raises
CdmRuns == {"ok", "open_fails", "challenge_fails"}

\* what the POST to WVN_LICENSE_URL ends with
LicenseResponses ==
    {"timeout", "connection_error", "http_401", "http_403", "http_5xx", "bad_json",
     "error_field", "no_license", "empty_license", "license"}

\* the key types cdm.get_keys gives after parse_license; Unparsable is a
\* license that parse_license rejects
Unparsable == <<"unparsable">>

KeyLists ==
    {Unparsable, <<>>, <<"SIGNING">>, <<"CONTENT">>, <<"SIGNING", "CONTENT">>}

\* faulty variant: every key counts, whatever its type
ContentKeysMutAnyType(keys) == keys

\* line 591: [key for key in cdm.get_keys(cdm_session) if key.type == "CONTENT"]
ContentKeys(keys) == SelectSeq(keys, LAMBDA k : k = "CONTENT")

\* faulty variant: the session is never closed
FinallyCloseMutSkip(cdm_session) == 0

\* lines 600-602: the number of cdm.close calls of the finally clause;
\* cdm_session is 0 while it is None, and the (non-empty) session id after
FinallyClose(cdm_session) == IF cdm_session # 0 THEN 1 ELSE 0

\* lines 517-530: what is raised before the try block, or "none"
ManifestError(manifest) ==
    CASE manifest = "load_fails" -> "m3u8_load_failed"
      [] manifest = "no_keys"    -> "no_encryption_keys"
      [] manifest = "key_none"   -> "attribute_error"
      [] manifest = "empty_uri"  -> "pssh_empty"
      [] OTHER                   -> "none"

\* lines 565-586: what the license request raises, or "none"
ResponseError(response) ==
    CASE response = "timeout"          -> "license_timeout"
      [] response = "connection_error" -> "connection_error"
      [] response = "http_401"         -> "authentication_expired"
      [] response = "http_403"         -> "license_denied"
      [] response = "http_5xx"         -> "license_request_failed"
      [] response = "bad_json"         -> "json_decode_error"
      [] response = "error_field"      -> "license_server_error"
      [] response = "no_license"       -> "no_license_returned"
      [] response = "empty_license"    -> "no_license_returned"
      [] OTHER                         -> "none"

\* lines 534-602: the try block and its finally clause, given a manifest
\* with a first key of non-empty uri
TryBlock(manifest, cdm, response, keys) ==
    LET opened == IF manifest = "bad_pssh" \/ cdm = "open_fails" THEN 0 ELSE 1
        error ==
            IF manifest = "bad_pssh" THEN "invalid_pssh_format"
            ELSE IF cdm = "open_fails" THEN "cdm_open_failed"
            ELSE IF cdm = "challenge_fails" THEN "cdm_challenge_failed"
            ELSE IF ResponseError(response) # "none" THEN ResponseError(response)
            ELSE IF keys = Unparsable THEN "cdm_parse_failed"
            ELSE IF ContentKeys(keys) = <<>> THEN "no_content_key"
            ELSE "none"
    IN  [outcome |-> IF error = "none" THEN "key" ELSE "raised",
         error   |-> error,
         key     |-> IF error = "none" THEN Head(ContentKeys(keys)) ELSE "none",
         opened  |-> opened,
         closed  |-> FinallyClose(opened)]

\* apple_music_get_decryption_key(session, stream_url, item_id)
AppleMusicGetDecryptionKey(manifest, cdm, response, keys) ==
    /\ lic' = [manifest |-> manifest, cdm |-> cdm, response |-> response, keys |-> keys] @@
              (IF ManifestError(manifest) # "none"
               THEN [outcome |-> "raised", error |-> ManifestError(manifest),
                     key |-> "none", opened |-> 0, closed |-> 0]
               ELSE TryBlock(manifest, cdm, response, keys))
    /\ op' = "get_decryption_key"
    /\ UNCHANGED <<stealthState, queueState, req, lock_owner>>

NextLicense ==
    \E manifest \in Manifests, cdm \in CdmRuns, response \in LicenseResponses, keys \in KeyLists :
        AppleMusicGetDecryptionKey(manifest, cdm, response, keys)

SpecLicense == Init /\ [][NextLicense]_vars

-----------------------------------------------------------------------------
(* The three locks of runtimedata, one step per `with` block entered and    *)
(* left: the resolve workers (QueueWorker.run) and the handlers of the GUI  *)
(* thread (qt/mainui.py)                                                    *)

\* the locks thread t holds
Held(t) == {l \in Locks : lock_owner[l] = t}

\* faulty variant: the lock is still held after the block
ReleasedMutKeep(l) == lock_owner

\* leaving `with l:` releases the lock
Released(l) == [lock_owner EXCEPT ![l] = "free"]

\* line 54: `with pending_lock:` is entered
LQEnterPop(w) ==
    /\ qpc[w] = "selected"
    /\ lock_owner["pending_lock"] = "free"
    /\ lock_owner' = [lock_owner EXCEPT !["pending_lock"] = w]
    /\ qpc' = [qpc EXCEPT ![w] = "popping"]
    /\ op' = "enter_pop"
    /\ UNCHANGED <<stealthState, req, lic, cancel_mark, parsing, submitted, next_local, pending,
                   qlid, qitem, selects, signals, download_queue, rows, next_rid, dhold, disk,
                   published, gui>>

\* line 55: item = pending.pop(local_id), and the block is left, with the
\* item or with KeyError
LQPop(w) ==
    /\ qpc[w] = "popping"
    /\ IF qlid[w] \in Keys(pending)
       THEN /\ qitem' = [qitem EXCEPT ![w] = At(pending, qlid[w]).item]
            /\ pending' = DictPop(pending, qlid[w])
            /\ qpc' = [qpc EXCEPT ![w] = "resolving"]
       ELSE /\ qpc' = [qpc EXCEPT ![w] = "except"]
            /\ UNCHANGED <<qitem, pending>>
    /\ lock_owner' = Released("pending_lock")
    /\ op' = "pop"
    /\ UNCHANGED <<stealthState, req, lic, cancel_mark, parsing, submitted, next_local,
                   qlid, selects, signals, download_queue, rows, next_rid, dhold, disk,
                   published, gui>>

\* lines 66-67: the log line (which raises when `item` is unbound) and
\* `with pending_lock:` is entered
LQEnterExcept(w) ==
    /\ qpc[w] \in {"except", "raised"}
    /\ IF qitem[w] = Unbound
       THEN /\ qpc' = [qpc EXCEPT ![w] = "dead"]
            /\ UNCHANGED lock_owner
       ELSE /\ lock_owner["pending_lock"] = "free"
            /\ lock_owner' = [lock_owner EXCEPT !["pending_lock"] = w]
            /\ qpc' = [qpc EXCEPT ![w] = "reinserting"]
    /\ op' = "enter_except"
    /\ UNCHANGED <<stealthState, req, lic, cancel_mark, parsing, submitted, next_local, pending,
                   qlid, qitem, selects, signals, download_queue, rows, next_rid, dhold, disk,
                   published, gui>>

\* line 68: pending[local_id] = item, and the block is left
LQReinsert(w) ==
    /\ qpc[w] = "reinserting"
    /\ pending' = DictSet(pending, qlid[w], [key |-> qlid[w], item |-> qitem[w]])
    /\ qpc' = [qpc EXCEPT ![w] = "idle"]
    /\ lock_owner' = Released("pending_lock")
    /\ op' = "except"
    /\ UNCHANGED <<stealthState, req, lic, cancel_mark, parsing, submitted, next_local,
                   qlid, qitem, selects, signals, download_queue, rows, next_rid, dhold, disk,
                   published, gui>>

\* the parser inserts into pending under the two locks of its collections
LParseItem ==
    /\ lock_owner["parsing_lock"] = "free"
    /\ lock_owner["pending_lock"] = "free"
    /\ ParseItem

\* the lock each `with` block of cancel_all_downloads takes, by the position
\* of the GUI thread inside the handler
CancelAllLock ==
    [cancel_all_parsing |-> "parsing_lock",
     cancel_all_pending |-> "pending_lock",
     cancel_all_queue |-> "download_queue_lock"]

\* where the GUI thread is before each block of cancel_all_downloads
CancelAllFrom ==
    [cancel_all_parsing |-> "ready",
     cancel_all_pending |-> "cancel_all_1",
     cancel_all_queue |-> "cancel_all_2"]

\* lines 698, 700, 702: a `with` block of cancel_all_downloads is entered
LCancelAllEnter(b) ==
    /\ gui = CancelAllFrom[b]
    /\ lock_owner[CancelAllLock[b]] = "free"
    /\ lock_owner' = [lock_owner EXCEPT ![CancelAllLock[b]] = "gui"]
    /\ gui' = b
    /\ op' = "enter_cancel_all"
    /\ UNCHANGED <<stealthState, req, lic, cancel_mark, parsing, submitted, next_local, pending,
                   qpc, qlid, qitem, selects, signals, download_queue, rows, next_rid, dhold,
                   disk, published>>

\* line 699: parsing.clear(), and the block is left
LCancelAllParsing ==
    /\ gui = "cancel_all_parsing"
    /\ parsing' = <<>>
    /\ lock_owner' = Released("parsing_lock")
    /\ gui' = "cancel_all_1"
    /\ op' = "clear_parsing"
    /\ UNCHANGED <<stealthState, req, lic, cancel_mark, submitted, next_local, pending,
                   qpc, qlid, qitem, selects, signals, download_queue, rows, next_rid, dhold,
                   disk, published>>

\* line 701: pending.clear(), and the block is left
LCancelAllPending ==
    /\ gui = "cancel_all_pending"
    /\ pending' = <<>>
    /\ lock_owner' = Released("pending_lock")
    /\ gui' = "cancel_all_2"
    /\ op' = "clear_pending"
    /\ UNCHANGED <<stealthState, req, lic, cancel_mark, parsing, submitted, next_local,
                   qpc, qlid, qitem, selects, signals, download_queue, rows, next_rid, dhold,
                   disk, published>>

\* lines 703-715: the loop over the queue; the block is left when the loop
\* ends, and never when the table has rows and the queue no entries
LCancelAllQueue ==
    /\ gui = "cancel_all_queue"
    /\ cancel_mark' = next_local
    /\ op' = "cancel_all_downloads"
    /\ IF rows # <<>> /\ download_queue = <<>>
       THEN /\ gui' = "hung"
            /\ UNCHANGED <<download_queue, rows, lock_owner>>
       ELSE /\ download_queue' = IF rows = <<>> THEN download_queue
                                 ELSE BulkStatus(download_queue, {"Waiting"}, "Cancelled")
            /\ rows' = IF rows = <<>> THEN rows
                       ELSE BulkRows(rows, download_queue, {"Waiting"}, FALSE, TRUE, ResetProgress)
            /\ lock_owner' = Released("download_queue_lock")
            /\ gui' = "ready"
    /\ UNCHANGED <<stealthState, req, lic, parsing, submitted, next_local, pending,
                   qpc, qlid, qitem, selects, signals, next_rid, dhold, disk, published>>

\* the handlers of the GUI thread that work inside one
\* `with download_queue_lock:` block
QueueHandlers ==
    {"add_item_to_download_list", "remove_completed_from_download_list",
     "retry_cancelled_and_failed_downloads"}

\* lines 595, 676, 719: the handler's block is entered
LHandlerEnter(h) ==
    /\ gui = "ready"
    /\ h = "add_item_to_download_list" => signals # <<>>
    /\ lock_owner["download_queue_lock"] = "free"
    /\ lock_owner' = [lock_owner EXCEPT !["download_queue_lock"] = "gui"]
    /\ gui' = h
    /\ op' = "enter_handler"
    /\ UNCHANGED <<stealthState, req, lic, cancel_mark, parsing, submitted, next_local, pending,
                   qpc, qlid, qitem, selects, signals, download_queue, rows, next_rid, dhold,
                   disk, published>>

\* lines 596-622: the entry is stored, and the block is left (the row was
\* inserted before the block, lines 463-593)
LPublish ==
    /\ gui = "add_item_to_download_list"
    /\ LET item == Head(signals) IN
       /\ rows' = Append(rows, NewRow(next_rid, item.local_id))
       /\ download_queue' = DictSet(download_queue, item.local_id, NewEntry(item, next_rid))
       /\ published' = [published EXCEPT ![item.local_id] = @ + 1]
    /\ signals' = Tail(signals)
    /\ next_rid' = next_rid + 1
    /\ lock_owner' = Released("download_queue_lock")
    /\ gui' = "ready"
    /\ op' = "add_item_to_download_list"
    /\ UNCHANGED <<stealthState, req, lic, cancel_mark, parsing, submitted, next_local, pending,
                   qpc, qlid, qitem, selects, dhold, disk>>

\* lines 677-694: the scan, and the block is left
LRemoveCompleted ==
    /\ gui = "remove_completed_from_download_list"
    /\ LET r == RemoveScan(rows, download_queue, 1) IN
       /\ rows' = r.rows
       /\ download_queue' = r.dq
    /\ lock_owner' = Released("download_queue_lock")
    /\ gui' = "ready"
    /\ op' = "remove_completed_from_download_list"
    /\ UNCHANGED <<stealthState, req, lic, cancel_mark, parsing, submitted, next_local, pending,
                   qpc, qlid, qitem, selects, signals, next_rid, dhold, disk, published>>

\* lines 720-732: the loop, and the block is left unless the loop never ends
LRetryAll ==
    /\ gui = "retry_cancelled_and_failed_downloads"
    /\ op' = "retry_cancelled_and_failed_downloads"
    /\ IF rows # <<>> /\ download_queue = <<>>
       THEN /\ gui' = "hung"
            /\ UNCHANGED <<download_queue, rows, lock_owner>>
       ELSE /\ download_queue' = IF rows = <<>> THEN download_queue
                                 ELSE BulkStatus(download_queue, Retryable, "Waiting")
            /\ rows' = IF rows = <<>> THEN rows
                       ELSE BulkRows(rows, download_queue, Retryable, TRUE, FALSE, KeepProgress)
            /\ lock_owner' = Released("download_queue_lock")
            /\ gui' = "ready"
    /\ UNCHANGED <<stealthState, req, lic, cancel_mark, parsing, submitted, next_local, pending,
                   qpc, qlid, qitem, selects, signals, next_rid, dhold, disk, published>>

\* download_btn_clicked, within the budget of the lock-level model
LDownloadBtnClicked(x) ==
    /\ submitted < MaxLockSubmit
    /\ DownloadBtnClicked(x)

\* the start of a loop iteration, within the budget of the lock-level model
LQSelect(w) ==
    /\ selects < MaxLockSelect
    /\ QSelect(w)

NextLocks ==
    \/ \E x \in ItemIds : LDownloadBtnClicked(x)
    \/ LParseItem
    \/ \E w \in QueueWorkers : LQSelect(w)
    \/ \E w \in QueueWorkers : LQEnterPop(w)
    \/ \E w \in QueueWorkers : LQPop(w)
    \/ \E w \in QueueWorkers : QResolve(w)
    \/ \E w \in QueueWorkers : LQEnterExcept(w)
    \/ \E w \in QueueWorkers : LQReinsert(w)
    \/ \E b \in DOMAIN CancelAllLock : LCancelAllEnter(b)
    \/ LCancelAllParsing
    \/ LCancelAllPending
    \/ LCancelAllQueue
    \/ \E h \in QueueHandlers : LHandlerEnter(h)
    \/ LPublish
    \/ LRemoveCompleted
    \/ LRetryAll

SpecLocks == Init /\ [][NextLocks]_vars

-----------------------------------------------------------------------------
(* Properties of the stealth counters *)

\* the stats the last operation read: what get_stealth_stats() gave it
StatsRead == GetStealthStats(pre, now)

\* C3 (as stated): can_download returns false if and only if tracks_this_hour
\* has reached the hourly cap or tracks_today has reached the daily cap.
C3_FalseIffCapReached ==
    op = "can_download" =>
        (ret.ok = FALSE <=>
            (StatsRead.tracks_this_hour >= max_per_hour \/ StatsRead.tracks_today >= max_per_day))

\* C3 (amended): with stealth mode enabled can_download returns false if and
\* only if a cap is reached; with stealth mode disabled it returns true
\* whatever the counters are.
C3_FalseIffEnabledAndCapReached ==
    op = "can_download" =>
        (ret.ok = FALSE <=>
            (/\ stealth_mode_enabled
             /\ (StatsRead.tracks_this_hour >= max_per_hour
                 \/ StatsRead.tracks_today >= max_per_day)))

\* C3 witness: stealth on, 20 tracks this hour, daily count below its cap, refused
C3_Witness ==
    /\ op = "can_download"
    /\ stealth_mode_enabled
    /\ StatsRead.tracks_this_hour = max_per_hour
    /\ StatsRead.tracks_today < max_per_day
    /\ ret.ok = FALSE

\* C4 (as stated): once every worker's increment_download_count call has
\* returned (same hour, same day, no session break), tracks_today,
\* tracks_this_hour and session_tracks are each higher by the number of calls.
C4_NoIncrementLost ==
    (calls > 0 /\ \A w \in DownloadWorkers : wpc[w] = "idle") =>
        /\ file.tracks_today = base.tracks_today + calls
        /\ file.tracks_this_hour = base.tracks_this_hour + calls
        /\ file.session_tracks = base.session_tracks + calls

\* C5: a query made in another hour of the day the record is dated returns
\* tracks_this_hour = 0 and records the new hour.
C5_HourRollover ==
    (op = "get_stealth_stats" /\ pre # NoFile /\ pre.date = now.day /\ pre.hour # now.hour) =>
        /\ ret.stats.tracks_this_hour = 0
        /\ ret.stats.hour = now.hour
        /\ file.hour = now.hour
        /\ file.tracks_this_hour = 0
        /\ ret.stats.tracks_today = pre.tracks_today

\* C5 witness: k > 0 tracks were recorded in hour H and the query ran in H+1
C5_Witness ==
    /\ op = "get_stealth_stats"
    /\ pre # NoFile
    /\ pre.date = now.day
    /\ now.hour = pre.hour + 1
    /\ pre.tracks_this_hour > 0
    /\ ret.stats.tracks_this_hour = 0

\* C6: a query that finds a record dated another day returns a freshly reset
\* record for today, whatever the old counters were.
C6_DayRollover ==
    (op = "get_stealth_stats" /\ pre # NoFile /\ pre.date # now.day) =>
        /\ ret.stats.date = now.day
        /\ ret.stats.tracks_today = 0
        /\ ret.stats.tracks_this_hour = 0
        /\ ret.stats.session_tracks = 0

\* C6 witness: yesterday's record held counts, today's query returned zeros
C6_Witness ==
    /\ op = "get_stealth_stats"
    /\ pre # NoFile
    /\ pre.date < now.day
    /\ pre.tracks_today > 0
    /\ pre.session_tracks > 0
    /\ ret.stats.tracks_today = 0

C8_BreakIffThreshold ==
    op = "check_session_break" =>
        /\ ret.needs_break <=> StatsRead.session_tracks >= break_threshold
        /\ ret.needs_break =>
              /\ file.session_tracks = 0
              /\ file.tracks_today = StatsRead.tracks_today
              /\ file.tracks_this_hour = StatsRead.tracks_this_hour

\* C8 (amended): with stealth mode enabled check_session_break returns
\* (true, duration) exactly when the session_tracks it reads has reached the
\* threshold, and (false, 0) otherwise and whenever stealth mode is disabled;
\* when it returns true it resets session_tracks to 0, leaves tracks_today
\* and tracks_this_hour as read, and a call made right after returns false.
C8_BreakIffEnabledAndThreshold ==
    op = "check_session_break" =>
        /\ ret.needs_break <=>
              (stealth_mode_enabled /\ StatsRead.session_tracks >= break_threshold)
        /\ ret.needs_break =>
              /\ ret.seconds \in BreakSeconds
              /\ file.session_tracks = 0
              /\ file.tracks_today = StatsRead.tracks_today
              /\ file.tracks_this_hour = StatsRead.tracks_this_hour
              /\ ~NeedsBreak(stealth_mode_enabled, GetStealthStats(file, now))
        /\ ~ret.needs_break =>
              /\ ret.seconds = 0
              /\ file = (IF stealth_mode_enabled THEN FileAfterGet(pre, now) ELSE pre)

\* C8 witness: a break was granted at the threshold and the session counter cleared
C8_Witness ==
    /\ op = "check_session_break"
    /\ ret.needs_break
    /\ pre # NoFile
    /\ pre.session_tracks = break_threshold
    /\ file.session_tracks = 0
    /\ file.tracks_today > 0

-----------------------------------------------------------------------------
(* Properties of the resolve pipeline and of the active queue *)

\* C1 (as stated): no pending entry is published to the active queue more
\* than once, whatever the interleaving of the resolve workers.
C1_PublishedAtMostOnce == \A l \in LocalIds : published[l] <= 1

\* C2 (as stated): the same item id never has two entries in the active
\* queue: a second submission of an item still in the pipeline is dropped.
C2_OneQueueItemPerItemId ==
    \A i, j \in DOMAIN download_queue :
        i # j => download_queue[i].item_id # download_queue[j].item_id

SpecStatuses ==
    {"Waiting", "Getting Info", "Downloading", "Converting", "Downloaded",
     "Already Exists", "Failed", "Cancelled", "Unavailable"}

RetryOps == {"retry_item", "retry_cancelled_and_failed_downloads", "retry_worker"}

\* the statuses from which the step's retry operation moved an item to Waiting
RetriedFrom ==
    {download_queue[i].item_status : i \in
        {j \in DOMAIN download_queue :
            /\ j \in DOMAIN download_queue'
            /\ download_queue[j].item_status # "Waiting"
            /\ download_queue'[j].item_status = "Waiting"}}

\* C10 (as stated): no retry path (retry_item, the bulk retry, the retry
\* worker) moves an item to Waiting unless its status was Failed or
\* Cancelled; an Unavailable, Downloaded or Already Exists item is never
\* returned to Waiting.
C10_RetryOnlyFailedOrCancelled ==
    [][op' \in RetryOps => RetriedFrom \subseteq {"Failed", "Cancelled"}]_vars

-----------------------------------------------------------------------------
(* Cancel, retry and the bulk operations *)

\* the value the progress bar of a queue entry shows
ProgressOf(rs, e) == rs[CHOOSE i \in DOMAIN rs : rs[i].rid = e.gui].progress

\* the step changed the entry at position j of the queue and no other
OnlyChanged(j) ==
    /\ DOMAIN download_queue' = DOMAIN download_queue
    /\ \A k \in DOMAIN download_queue : k # j => download_queue'[k] = download_queue[k]
    /\ download_queue'[j].key = download_queue[j].key

\* C11: after cancel_item, and after cancel_all_downloads for each item that
\* was Waiting, the item's status is Cancelled and its progress bar is at 0.
C11_CancelledWithZeroProgress ==
    [][/\ op' = "cancel_item" =>
            \E j \in DOMAIN download_queue :
                /\ \E i \in DOMAIN rows :
                      rows[i].cancel /\ rows[i].local_id = download_queue[j].key
                /\ OnlyChanged(j)
                /\ download_queue'[j].item_status = "Cancelled"
                /\ ProgressOf(rows', download_queue'[j]) = 0
       /\ op' = "cancel_all_downloads" =>
            \A j \in DOMAIN download_queue :
                download_queue[j].item_status = "Waiting" =>
                    /\ download_queue'[j].item_status = "Cancelled"
                    /\ ProgressOf(rows', download_queue'[j]) = 0]_vars

\* C11 witness: an item a download worker was working on has just been
\* cancelled from its row; it is Cancelled and its progress bar is back at 0
C11_Witness ==
    /\ op = "cancel_item"
    /\ \E d \in DownloadWorkers :
        /\ dhold[d] # NoRet
        /\ dhold[d].key \in Keys(download_queue)
        /\ At(download_queue, dhold[d].key).item_status = "Cancelled"
        /\ At(download_queue, dhold[d].key).gui = dhold[d].rid
        /\ ProgressOf(rows, At(download_queue, dhold[d].key)) = 0

Terminal == {"Downloaded", "Already Exists", "Cancelled", "Unavailable"}

\* C13 (as stated): remove_completed_from_download_list removes exactly the
\* items whose status is Downloaded, Already Exists, Cancelled or
\* Unavailable: afterwards none of them is left and every other item is
\* still in the queue.
C13_RemovesExactlyTerminal ==
    [][op' = "remove_completed_from_download_list" =>
        /\ \A j \in DOMAIN download_queue' : download_queue'[j].item_status \notin Terminal
        /\ \A j \in DOMAIN download_queue :
              download_queue[j].item_status \notin Terminal =>
                  download_queue[j].key \in Keys(download_queue')]_vars

\* C14: cancel_all_downloads leaves parsing and pending empty, turns exactly
\* the Waiting items of the queue into Cancelled, changes the status of no
\* other item and adds or removes none.
C14_CancelAllFrame ==
    [][op' = "cancel_all_downloads" =>
        /\ parsing' = <<>>
        /\ pending' = <<>>
        /\ DOMAIN download_queue' = DOMAIN download_queue
        /\ \A j \in DOMAIN download_queue :
              /\ download_queue'[j].key = download_queue[j].key
              /\ download_queue'[j].item_status =
                    IF download_queue[j].item_status = "Waiting"
                    THEN "Cancelled" ELSE download_queue[j].item_status]_vars

\* C14 witness: the bulk cancel ran on a queue that held a cancelled item
\* next to one a worker is still downloading
C14_Witness ==
    /\ op = "cancel_all_downloads"
    /\ gui = "ready"
    /\ \E j, k \in DOMAIN download_queue :
        /\ download_queue[j].item_status = "Cancelled"
        /\ ~download_queue[j].file_path
        /\ download_queue[k].item_status \in InFlight

\* C16 (as stated): every claim of a resolve worker removes the entry that
\* was inserted earliest among the entries pending at the time of the claim.
C16_ClaimsOldestPending ==
    [][\A w \in QueueWorkers :
        (qpc[w] = "selected" /\ qpc'[w] = "resolving") => qlid[w] = Head(pending).key]_vars

\* C18 (as stated): add_item_to_download_list adds exactly one new entry,
\* Waiting and without a file path, and leaves every entry already in the
\* queue present and unchanged.
C18_PublishAddsOneEntry ==
    [][op' = "add_item_to_download_list" =>
        /\ Len(download_queue') = Len(download_queue) + 1
        /\ \A j \in DOMAIN download_queue : download_queue'[j] = download_queue[j]
        /\ download_queue'[Len(download_queue')].item_status = "Waiting"
        /\ ~download_queue'[Len(download_queue')].file_path]_vars

-----------------------------------------------------------------------------
(* Download workers against cancel and retry *)

\* C19 (as stated): no item of the active queue is held by two download
\* workers at the same time.
C19_OneWorkerPerItem ==
    \A d1, d2 \in DownloadWorkers :
        (d1 # d2 /\ dhold[d1] # NoRet /\ dhold[d2] # NoRet) => dhold[d1].key # dhold[d2].key

WorkerOps == {"check_status", "write_status", "abort", "converting", "finish"}

\* C20 (as stated): once an item a download worker holds is Cancelled, no
\* later step of the worker changes that status and none leaves an output
\* file for it on disk.
C20_CancelledStaysCancelled ==
    [][op' \in WorkerOps =>
        \A j \in DOMAIN download_queue :
            download_queue[j].item_status = "Cancelled" =>
                /\ download_queue'[j].item_status = "Cancelled"
                /\ download_queue[j].key \in disk' => download_queue[j].key \in disk]_vars

-----------------------------------------------------------------------------
(* Resolution failures *)

\* the entry the parser made for local id k, or a worker put back for it
Genuine(e) == e.item.local_id = e.key

\* worker w takes entry e out of pending in this step
ClaimedBy(w, e) ==
    /\ qpc[w] = "selected"
    /\ qpc'[w] = "resolving"
    /\ qlid[w] = e.key
    /\ qitem'[w] = e.item

\* C15 (as stated): when the metadata call raises, the worker puts the entry
\* it claimed back into pending under the same local id and emits nothing;
\* from then on the entry stays in pending, unchanged, until a worker claims
\* it (or the user cancels everything), so that it is claimed again.
C15_RequeuedUntilClaimed ==
    [][/\ \A w \in QueueWorkers :
            (qpc[w] = "raised" /\ qpc'[w] = "idle") =>
                /\ \E i \in DOMAIN pending' :
                      pending'[i] = [key |-> qlid[w], item |-> qitem[w]]
                /\ signals' = signals
       /\ op' # "cancel_all_downloads" =>
            \A i \in DOMAIN pending :
                Genuine(pending[i]) =>
                    \/ \E j \in DOMAIN pending' : pending'[j] = pending[i]
                    \/ \E w \in QueueWorkers : ClaimedBy(w, pending[i])]_vars

\* C17 (as stated): an entry put back after a resolution failure is placed
\* behind every entry already in pending.
C17_RequeuedLast ==
    [][\A w \in QueueWorkers :
        (qpc[w] = "raised" /\ qpc'[w] = "idle") =>
            pending'[Len(pending')] = [key |-> qlid[w], item |-> qitem[w]]]_vars

-----------------------------------------------------------------------------
(* The pacing delay *)

\* the call paced the download: stealth mode on, service apple_music
PacedCall ==
    /\ op = "calculate_stealth_delay"
    /\ stealth_mode_enabled
    /\ ret.service = "apple_music"

\* C21: with stealth enabled and a non-exempt service the delay is never
\* below min_delay; for a 180000 ms track, ratio 0.5 and min_delay 30 without
\* the distraction bonus it lies within [30, 90 * (1 + variation)] seconds;
\* when the bonus fires the delay is larger by between 30 and 120 seconds.
C21_DelayBounds ==
    PacedCall =>
        /\ ret.delay >= ret.config.min_delay * 1000
        /\ (/\ ret.song_duration_ms = 180000
            /\ ret.config.song_ratio = 500
            /\ ret.config.min_delay = 30) =>
                /\ ret.extra = 0 =>
                      /\ ret.delay >= 30000
                      /\ ret.delay * 1000 <= 90000 * (1000 + ret.config.random_var)
                /\ ret.extra # 0 =>
                      /\ ret.delay >= 30000 + 30000
                      /\ ret.delay * 1000 <= 90000 * (1000 + ret.config.random_var) + 120000 * 1000
        /\ ret.extra # 0 =>
              LET base_ms == (SongDurationMs(ret.song_duration_ms) * ret.config.song_ratio) \div 1000
                  plain == Max(base_ms + ret.jitter, ret.config.min_delay * 1000)
              IN  ret.delay - plain \in 30000..120000

\* C21 witness: a 180000 ms track under the default configuration, jitter at
\* its upper end, no bonus: 117 seconds
C21_Witness ==
    /\ PacedCall
    /\ ret.song_duration_ms = 180000
    /\ ret.config.min_delay = 30
    /\ ret.config.random_var = 300
    /\ ret.extra = 0
    /\ ret.delay = 117000

C23_ZeroWhenDisabled ==
    (op = "calculate_stealth_delay" /\ ~stealth_mode_enabled) => ret.delay = 0

-----------------------------------------------------------------------------
(* Lock discipline *)

\* the locks the handler behind operation o holds while it writes to the
\* shared collections (the `with ..._lock:` blocks of the source)
LocksTaken(o) ==
    CASE o = "add_item_to_download_list" -> {"download_queue_lock"}
      [] o = "remove_completed_from_download_list" -> {"download_queue_lock"}
      [] o = "retry_cancelled_and_failed_downloads" -> {"download_queue_lock"}
      [] o = "cancel_all_downloads" -> {"parsing_lock", "pending_lock", "download_queue_lock"}
      [] o = "pop" -> {"pending_lock"}
      [] o = "except" -> {"pending_lock"}
      [] OTHER -> {}

\* the parser's locks, as section 5 of the specification requires of it
ParserLocks == {"parsing_lock", "pending_lock"}

\* the operations of the queue coordinator on the active queue
CoordinatorOps ==
    {"add_item_to_download_list", "cancel_item", "retry_item", "delete_file",
     "cancel_all_downloads", "retry_cancelled_and_failed_downloads",
     "remove_completed_from_download_list"}

\* C24 (as stated): every change of the active queue or of an item's status
\* by publish, cancel, retry, delete, the bulk cancel, the bulk retry or
\* remove, and every insertion into parsing or pending, is made while the
\* collection's lock is held.
C24_MutationsUnderLock ==
    [][LET held == IF op' = "parse_item" THEN ParserLocks ELSE LocksTaken(op') IN
       /\ (op' \in CoordinatorOps /\ download_queue' # download_queue) =>
              "download_queue_lock" \in held
       /\ Len(parsing') > Len(parsing) => "parsing_lock" \in held
       /\ Len(pending') > Len(pending) => "pending_lock" \in held]_vars

-----------------------------------------------------------------------------
(* Resolve workers: survival, cancellation, loss and progress *)

\* C25 (as stated): no resolve worker ever terminates because of an
\* exception: whatever the other workers and cancel_all_downloads do between
\* its selection of an entry and the removal, it logs the failure and goes on
\* with its loop.
C25_WorkerNeverDies == \A w \in QueueWorkers : qpc[w] # "dead"

\* C27 (as stated): once cancel_all_downloads has completed, no request
\* that was submitted before it is published to the active queue or put back
\* into pending, not even an entry a resolve worker had claimed and was still
\* resolving when cancel_all_downloads ran.
C27_NothingSurvivesCancelAll ==
    [][gui' = "ready" =>
        /\ op' = "add_item_to_download_list" => Head(signals).local_id >= cancel_mark
        /\ \A i \in DOMAIN pending' :
              \/ pending'[i].item.local_id >= cancel_mark'
              \/ op' = "cancel_all_downloads"]_vars

\* C28 (as stated): every entry a resolve worker took out of pending is
\* published or put back into pending when the worker is done with it, also
\* when the resolver returns an empty result without raising.
C28_ClaimedEntryNotLost ==
    [][\A w \in QueueWorkers :
        /\ (qpc[w] = "resolving" /\ qpc'[w] = "idle") => signals' = Append(signals, qitem[w])
        /\ (qpc[w] = "raised" /\ qpc'[w] = "idle") =>
              \E i \in DOMAIN pending' : pending'[i].item = qitem[w]]_vars

\* nothing is left to do for the parser, the resolve workers and the GUI
Quiescent ==
    /\ parsing = <<>>
    /\ pending = <<>>
    /\ signals = <<>>
    /\ \A w \in QueueWorkers : qpc[w] \in {"idle", "dead"}

\* C29 (as stated): with the resolve workers scheduled fairly, no
\* cancel_all_downloads and a resolver that does not fail for ever, every
\* entry placed in pending is eventually published: when the pipeline has
\* come to rest, every local id handed out has been published.
C29_EveryPendingEntryPublished ==
    Quiescent => \A l \in LocalIds : l < next_local => published[l] >= 1

\* C30 (as stated): cancel_all_downloads and
\* retry_cancelled_and_failed_downloads always return and release
\* download_queue_lock, whatever rows the table and entries the queue hold.
C30_BulkOperationsReturn == gui # "hung"

\* C26 (as stated): with stealth mode enabled, when every download start
\* follows a can_download() that returned true and is followed by one
\* increment_download_count(), tracks_this_hour never exceeds the hourly cap
\* and tracks_today never exceeds the daily cap, however many download
\* workers run.
C26_CapsNeverExceeded ==
    (stealth_mode_enabled /\ file # NoFile) =>
        /\ file.tracks_this_hour <= max_per_hour
        /\ file.tracks_today <= max_per_day

-----------------------------------------------------------------------------
(* Lock scopes *)

Threads == QueueWorkers \cup {"gui"}

\* C31: a resolve worker holds pending_lock only while it removes or
\* re-inserts an entry, and holds no lock at all during the account-token
\* lookup and the metadata call.
C31_NoLockAcrossNetworkCall ==
    \A w \in QueueWorkers :
        Held(w) = IF qpc[w] \in {"popping", "reinserting"} THEN {"pending_lock"} ELSE {}

\* C31 witness: one worker is inside the metadata call while the other is
\* inside `with pending_lock:` removing an entry
C31_Witness ==
    \E w1, w2 \in QueueWorkers :
        /\ qpc[w1] = "resolving"
        /\ Held(w1) = {}
        /\ qpc[w2] = "popping"
        /\ lock_owner["pending_lock"] = w2

\* thread t is about to enter a `with` block: it waits when the lock is taken
EntersBlock(t) ==
    IF t = "gui"
    THEN gui \in {"cancel_all_1", "cancel_all_2"}
    ELSE qpc[t] \in {"selected", "except", "raised"}

\* C32: no thread holds two of parsing_lock, pending_lock and
\* download_queue_lock at once, and no thread waits for one of them while it
\* holds another, so the locks cannot deadlock the resolve workers and the
\* queue operations.
C32_NeverTwoLocks ==
    \A t \in Threads :
        /\ Cardinality(Held(t)) <= 1
        /\ EntersBlock(t) => Held(t) = {}

\* C32 witness: cancel_all_downloads is between its blocks, about to take
\* download_queue_lock, while a worker holds pending_lock
C32_Witness ==
    /\ gui = "cancel_all_2"
    /\ Held("gui") = {}
    /\ \E w \in QueueWorkers : lock_owner["pending_lock"] = w

-----------------------------------------------------------------------------
(* Requests with retry *)

\* a call that was let into the loop
Called == req # NoRet /\ req.method \in {"GET", "POST"}

\* C33: _request_with_retry makes at most max_retries attempts, returns at
\* the first successful response and makes no attempt after it, and after
\* max_retries transient failures in a row raises the last of them; three
\* timeouts with max_retries = 3 make exactly 3 attempts.
C33_BoundedAttempts ==
    Called =>
        /\ Len(req.outcomes) <= req.max_retries
        /\ \A i \in 1..(Len(req.outcomes) - 1) : req.outcomes[i] # "ok"
        /\ req.status = "returned" <=>
              (req.outcomes # <<>> /\ req.outcomes[Len(req.outcomes)] = "ok")
        /\ (/\ req.max_retries > 0
            /\ Len(req.outcomes) = req.max_retries
            /\ \A i \in DOMAIN req.outcomes :
                  req.outcomes[i] \in {"timeout", "connection_error", "http_5xx"}) =>
                /\ req.status = "raised"
                /\ req.error = req.outcomes[Len(req.outcomes)]
        /\ req.status = "running" => Len(req.outcomes) < req.max_retries

\* C33 witness: max_retries = 3, three timeouts, the call has raised the
\* timeout after exactly 3 attempts
C33_Witness ==
    /\ Called
    /\ req.max_retries = MAX_RETRIES
    /\ req.outcomes = <<"timeout", "timeout", "timeout">>
    /\ req.status = "raised"
    /\ req.error = "timeout"

\* C34: a 4xx response is never retried: it is raised after the one attempt
\* that got it, with no wait; timeouts, connection errors and 5xx responses
\* are the only failures followed by another attempt.
C34_ClientErrorsNotRetried ==
    Called =>
        /\ \A i \in DOMAIN req.outcomes :
              req.outcomes[i] = "http_4xx" =>
                  /\ i = Len(req.outcomes)
                  /\ req.status = "raised"
                  /\ req.error = "http_4xx"
                  /\ Len(req.waits) = i - 1
        /\ \A i \in 1..(Len(req.outcomes) - 1) :
              req.outcomes[i] \in {"timeout", "connection_error", "http_5xx"}
        /\ (req.status = "running" /\ req.outcomes # <<>>) =>
              req.outcomes[Len(req.outcomes)] \in {"timeout", "connection_error", "http_5xx"}

\* C34 witness: a 5xx response was retried and the 4xx response that
\* followed was raised at once
C34_Witness ==
    /\ Called
    /\ req.outcomes = <<"http_5xx", "http_4xx">>
    /\ req.status = "raised"
    /\ req.error = "http_4xx"
    /\ Len(req.waits) = 1

\* 2 to the power n
RECURSIVE Pow2(_)
Pow2(n) == IF n = 0 THEN 1 ELSE 2 * Pow2(n - 1)

\* C35 (as stated): for every max_retries the wait after the k-th failure is
\* RETRY_DELAY * 2^(k-1), each wait twice the one before, and no wait follows
\* the final attempt.
C35_ExponentialBackoff ==
    Called =>
        /\ \A k \in DOMAIN req.waits : req.waits[k] = RETRY_DELAY * Pow2(k - 1)
        /\ Len(req.waits) <= req.max_retries - 1 \/ req.waits = <<>>

-----------------------------------------------------------------------------
(* Licence exchange *)

\* C36: apple_music_get_decryption_key returns a content key only if the
\* manifest has a key entry with a non-empty protection header, the licence
\* response has no error and a non-empty licence, and the parsed licence has
\* at least one CONTENT key; in every other case it raises.
C36_KeyOnlyFromValidLicense ==
    lic # NoRet =>
        LET valid == /\ lic.manifest \in {"bad_pssh", "good"}
                     /\ lic.response = "license"
                     /\ lic.keys # Unparsable
                     /\ \E i \in DOMAIN lic.keys : lic.keys[i] = "CONTENT"
        IN  /\ lic.outcome \in {"key", "raised"}
            /\ lic.outcome = "key" => (valid /\ lic.key = "CONTENT")
            /\ ~valid => (lic.outcome = "raised" /\ lic.error # "none")

\* C36 witness: a key was returned from a licence that holds a signing key
\* before its content key, and the key returned is the content key
C36_Witness ==
    /\ lic # NoRet
    /\ lic.outcome = "key"
    /\ lic.keys = <<"SIGNING", "CONTENT">>
    /\ lic.key = "CONTENT"

\* C37: a CDM session that was opened is closed exactly once before the
\* function returns or raises, on success and on every failure after the
\* opening; nothing is closed when no session was opened.
C37_SessionClosedOnce ==
    lic # NoRet => (lic.opened \in {0, 1} /\ lic.closed = lic.opened)

\* C37 witness: the licence request timed out after the session was opened,
\* and the session was closed
C37_Witness ==
    /\ lic # NoRet
    /\ lic.outcome = "raised"
    /\ lic.error = "license_timeout"
    /\ lic.opened = 1
    /\ lic.closed = 1

-----------------------------------------------------------------------------
(* Counter records *)

\* C38: in every stats record that a sequential run of get_stealth_stats,
\* increment_download_count and check_session_break returns or saves, across
\* hour and day changes, 0 <= tracks_this_hour <= tracks_today and
\* 0 <= session_tracks <= tracks_today.
C38_CountersOrdered ==
    LET ordered(s) == /\ 0 <= s.tracks_this_hour
                      /\ s.tracks_this_hour <= s.tracks_today
                      /\ 0 <= s.session_tracks
                      /\ s.session_tracks <= s.tracks_today
    IN  /\ file # NoFile => ordered(file)
        /\ "stats" \in DOMAIN ret => ordered(ret.stats)

\* C38 witness: a download is counted on the day after a day that ended at
\* the hourly cap; the three counters restart at 1
C38_Witness ==
    /\ op = "increment_download_count"
    /\ pre # NoFile
    /\ pre.date # now.day
    /\ pre.tracks_this_hour >= 19
    /\ ret.stats.tracks_today = 1
    /\ ret.stats.tracks_this_hour = 1
    /\ ret.stats.session_tracks = 1

\* C39: when the persisted record cannot be read or parsed,
\* get_stealth_stats returns a zeroed record for today instead of raising,
\* and can_download then returns true whatever was counted before.
C39_UnreadableFileFailsOpen ==
    /\ (op = "get_stealth_stats" /\ pre = Corrupt) =>
          /\ "stats" \in DOMAIN ret
          /\ ret.stats.date = now.day
          /\ ret.stats.hour = now.hour
          /\ ret.stats.tracks_today = 0
          /\ ret.stats.tracks_this_hour = 0
          /\ ret.stats.session_tracks = 0
          /\ ret.stats.last_download_time = 0
    /\ (op = "can_download" /\ pre = Corrupt) => ("ok" \in DOMAIN ret /\ ret.ok)

\* C39 witness: stealth mode is on, downloads were counted in this run, the
\* file is unreadable and can_download says yes
C39_Witness ==
    /\ op = "can_download"
    /\ pre = Corrupt
    /\ stealth_mode_enabled
    /\ calls > 0
    /\ ret.ok

====
